---- MODULE Spec2Model ----
(***************************************************************************)
(* AniChart Filter user script (src/anichart-filter.user.js) as a state    *)
(* machine: the document the script augments, the browser's timer table    *)
(* and mutation observers, localStorage, and the closure state of every    *)
(* running copy of the script.  One action is one browser task together    *)
(* with the mutation-observer microtasks that follow it.                   *)
(***************************************************************************)
EXTENDS Integers, Sequences, FiniteSets, TLC

(***************************************************************************)
(* Bounds of the model.                                                    *)
(***************************************************************************)
\* content cards the host page shows at once
MaxCards == 2
\* host-page mutations in one run
MaxHostOps == 1
\* user clicks on a checkbox in one run
MaxToggles == 1
\* time that passes in one step of the clock
TickStep == 90
\* cap of the counters that only observe the run
MaxCount == 3
\* copies of the script the host environment injects into one page
MaxInst == 2

(***************************************************************************)
(* Strings are tuples of one-character strings, so that the substring      *)
(* test and the regular expression are computed, not assumed.              *)
(***************************************************************************)
LowerLetters == <<"a","b","c","d","e","f","g","h","i","j","k","l","m",
                  "n","o","p","q","r","s","t","u","v","w","x","y","z">>

UpperLetters == <<"A","B","C","D","E","F","G","H","I","J","K","L","M",
                  "N","O","P","Q","R","S","T","U","V","W","X","Y","Z">>

Range(f) == { f[x] : x \in DOMAIN f }

IsLetter(c) == c \in Range(LowerLetters) \cup Range(UpperLetters)

ToLower(c) ==
    IF c \in Range(UpperLetters)
    THEN LowerLetters[CHOOSE k \in DOMAIN UpperLetters : UpperLetters[k] = c]
    ELSE c

\* String.prototype.includes
includes(text, needle) ==
    \E p \in 1..(Len(text) - Len(needle) + 1) :
        SubSeq(text, p, p + Len(needle) - 1) = needle

AIRED == <<"a","i","r","e","d">>
green == <<"g","r","e","e","n">>
yellow == <<"y","e","l","l","o","w">>
red == <<"r","e","d">>
gray == <<"g","r","a","y">>

STORAGE_KEY == "anichart-selected-filters"
REFRESH_DEBOUNCE_MS == 180
KNOWN_COLORS == <<green, yellow, red, gray>>
ColorPrefix == <<"-","-","c","o","l","o","r","-">>

\* /--color-([a-z]+)/i at position p of text: the prefix, then one letter at least
PrefixAt(text, p) ==
    /\ p + Len(ColorPrefix) <= Len(text)
    /\ \A k \in 1..Len(ColorPrefix) : ToLower(text[p + k - 1]) = ColorPrefix[k]
    /\ IsLetter(text[p + Len(ColorPrefix)])

\* the greedy run of letters that starts at position p
LetterRunEnd(text, p) ==
    CHOOSE e \in p..Len(text) :
        /\ \A k \in p..e : IsLetter(text[k])
        /\ (e = Len(text) \/ ~IsLetter(text[e + 1]))

\* COLOR_RE.exec(text): the leftmost match with its capture group, or no match
COLOR_RE_exec(text) ==
    LET starts == { p \in 1..Len(text) : PrefixAt(text, p) }
    IN IF starts = {} THEN [matched |-> FALSE, group1 |-> <<>>]
       ELSE LET p == CHOOSE q \in starts : \A r \in starts : q <= r
                b == p + Len(ColorPrefix)
            IN [matched |-> TRUE, group1 |-> SubSeq(text, b, LetterRunEnd(text, b))]

(***************************************************************************)
(* The state.                                                              *)
(***************************************************************************)
VARIABLES
    storage,      \* localStorage[STORAGE_KEY]: the JSON text by its value, or missing
    css,          \* <style id="anichart-filter-css"> elements in document.head
    filters,      \* whether the host's .filters container is in the document
    roots,        \* the #anichart-filter-html blocks inside it, in document order
    cards,        \* the .media-card / .airing-card elements, in document order
    observers,    \* the MutationObservers observing document.body, with their queues
    timers,       \* the browser's table of pending timeouts
    inst,         \* the closure state of each copy of the script that was run
    hostOps,      \* host mutations so far
    toggles,      \* user clicks so far
    quietRuns,    \* refresh passes since the host or the user last acted
    batch,        \* per batch of the last task, the most calls the callback made
    last          \* the task that ran last

vars == <<storage, css, filters, roots, cards, observers, timers, inst,
          hostOps, toggles, quietRuns, batch, last>>

\* calls of initializeHtml and of debounceRefresh, none made yet
NoCalls == [initializeHtml |-> 0, debounceRefresh |-> 0]

\* the browser state the handlers read and write, as one value; now counts the
\* calls of the observer callback that is running, most is the largest count
\* of a callback of this task
World ==
    [storage |-> storage, css |-> css, filters |-> filters, roots |-> roots,
     cards |-> cards, observers |-> observers, timers |-> timers, inst |-> inst,
     now |-> NoCalls, most |-> NoCalls]

Commit(w) ==
    /\ storage' = w.storage
    /\ css' = w.css
    /\ filters' = w.filters
    /\ roots' = w.roots
    /\ cards' = w.cards
    /\ observers' = w.observers
    /\ timers' = w.timers
    /\ inst' = w.inst
    /\ batch' = w.most

Cap(n) == IF n > MaxCount THEN MaxCount ELSE n

Max(a, b) == IF a > b THEN a ELSE b

(***************************************************************************)
(* JavaScript's Set, kept in insertion order, and the JSON of the          *)
(* persisted selection.                                                    *)
(***************************************************************************)
SetHas(s, v) == \E k \in DOMAIN s : s[k] = v

SetAdd(s, v) == IF SetHas(s, v) THEN s ELSE Append(s, v)

SetDelete(s, v) == SelectSeq(s, LAMBDA x : x # v)

RECURSIVE SetFrom(_)
\* new Set(array)
SetFrom(items) ==
    IF items = <<>> THEN <<>>
    ELSE SetAdd(SetFrom(SubSeq(items, 1, Len(items) - 1)), items[Len(items)])

Members(s) == Range(s)

JsonMissing == [json |-> "missing"]
JsonInvalid == [json |-> "invalid"]
JsonObject == [json |-> "object"]
JsonArray(items) == [json |-> "array", items |-> items]

\* JSON.stringify([...set])
JSON_stringify(s) == JsonArray(s)

\* localStorage.getItem(STORAGE_KEY) || "[]"
getItemOrEmpty(stored) == IF stored.json = "missing" THEN JsonArray(<<>>) ELSE stored

\* whether new Set(JSON.parse(text)) throws (SyntaxError or TypeError)
LoadThrows(text) == text.json \in {"invalid", "object"}

\* new Set(JSON.parse(text)) of the text of an array
LoadSet(text) == SetFrom(text.items)

(***************************************************************************)
(* Timers.                                                                 *)
(***************************************************************************)
\* let refreshTimer = null
NoTimer == 0

TimerIds(w) == { t.id : t \in w.timers }

NewTimerId(w) ==
    CHOOSE n \in 1..(Cardinality(w.timers) + 1) :
        /\ n \notin TimerIds(w)
        /\ \A m \in 1..(n - 1) : m \in TimerIds(w)

clearTimeout(w, id) == [w EXCEPT !.timers = { t \in @ : t.id # id }]

setTimeout(w, i, ms) ==
    [w EXCEPT !.timers = @ \cup {[id |-> NewTimerId(w), owner |-> i, left |-> ms]}]

\* saveState()
saveState(w, i) ==
    [w EXCEPT !.storage = JSON_stringify(w.inst[i].SELECTED_COLORS)]

\* debounceRefresh() without its clearTimeout: every call adds a timeout
debounceRefreshNoCancel(w, i) ==
    LET me == w.inst[i]
        w2 == setTimeout(w, i, REFRESH_DEBOUNCE_MS)
        fresh == me.sinceCall >= REFRESH_DEBOUNCE_MS
    IN [w2 EXCEPT !.now.debounceRefresh = Cap(@ + 1),
                  !.inst[i].refreshTimer = NewTimerId(w),
                  !.inst[i].calls = IF fresh THEN 1 ELSE Cap(@ + 1),
                  !.inst[i].execs = IF fresh THEN 0 ELSE @,
                  !.inst[i].sinceCall = 0]

\* debounceRefresh(): cancel the pending timeout, then schedule refresh()
debounceRefresh(w, i) ==
    LET me == w.inst[i]
        w1 == IF me.refreshTimer # NoTimer THEN clearTimeout(w, me.refreshTimer) ELSE w
        w2 == setTimeout(w1, i, REFRESH_DEBOUNCE_MS)
        fresh == me.sinceCall >= REFRESH_DEBOUNCE_MS
    IN [w2 EXCEPT !.now.debounceRefresh = Cap(@ + 1),
                  !.inst[i].refreshTimer = NewTimerId(w1),
                  !.inst[i].calls = IF fresh THEN 1 ELSE Cap(@ + 1),
                  !.inst[i].execs = IF fresh THEN 0 ELSE @,
                  !.inst[i].sinceCall = 0]

(***************************************************************************)
(* Mutation records, by what the observer's callback asks of them.         *)
(***************************************************************************)
\* an element node: its own classes, and what matches() and querySelector() find
ElementNode(classFilters, hasFilters, classCard, inCard, hasCard) ==
    [nodeType |-> 1, classFilters |-> classFilters, hasFilters |-> hasFilters,
     classCard |-> classCard, inCard |-> inCard, hasCard |-> hasCard]

TextNode ==
    [nodeType |-> 3, classFilters |-> FALSE, hasFilters |-> FALSE,
     classCard |-> FALSE, inCard |-> FALSE, hasCard |-> FALSE]

ChildList(added, removed) ==
    [type |-> "childList", addedNodes |-> added, removedNodes |-> removed,
     targetInCard |-> FALSE]

\* a style attribute changed on target; targetInCard is target.closest(card selector)
Attributes(targetInCard) ==
    [type |-> "attributes", addedNodes |-> <<>>, removedNodes |-> <<>>,
     targetInCard |-> targetInCard]

\* the browser queues a record to every observer of document.body
Enqueue(w, rec) ==
    [w EXCEPT !.observers =
        [k \in DOMAIN @ |-> [@[k] EXCEPT !.queue = Append(@, rec)]]]

RECURSIVE EnqueueAll(_, _)
EnqueueAll(w, recs) ==
    IF recs = <<>> THEN w ELSE EnqueueAll(Enqueue(w, Head(recs)), Tail(recs))

(***************************************************************************)
(* The script's functions.                                                 *)
(***************************************************************************)
\* initializeCss()
initializeCss(w) == IF w.css > 0 THEN w ELSE [w EXCEPT !.css = @ + 1]

\* root.innerHTML = KNOWN_COLORS.map(...): one unchecked checkbox per color
NewRoot ==
    [inputs |-> [k \in DOMAIN KNOWN_COLORS |->
        [value |-> KNOWN_COLORS[k], checked |-> FALSE,
         listening |-> FALSE, listeners |-> <<>>]]]

\* the loop of initializeHtml without the _anichart_listening test
RestoreInputsAlwaysListen(root, i, selected) ==
    [root EXCEPT !.inputs = [k \in DOMAIN root.inputs |->
        LET input == root.inputs[k]
        IN [input EXCEPT
               !.listeners = Append(@, i),
               !.listening = TRUE,
               !.checked = SetHas(selected, input.value)]]]

\* the loop of initializeHtml without line 125: the checked state is not restored
RestoreInputsNoCheck(root, i, selected) ==
    [root EXCEPT !.inputs = [k \in DOMAIN root.inputs |->
        LET input == root.inputs[k]
        IN [input EXCEPT
               !.listeners = IF input.listening THEN @ ELSE Append(@, i),
               !.listening = TRUE]]]

\* the loop of initializeHtml over root's inputs
RestoreInputs(root, i, selected) ==
    [root EXCEPT !.inputs = [k \in DOMAIN root.inputs |->
        LET input == root.inputs[k]
        IN [input EXCEPT
               !.listeners = IF input.listening THEN @ ELSE Append(@, i),
               !.listening = TRUE,
               !.checked = SetHas(selected, input.value)]]]

\* initializeHtml()
initializeHtml(w, i) ==
    LET w0 == [w EXCEPT !.now.initializeHtml = Cap(@ + 1)]
    IN IF w.roots = <<>> /\ ~w.filters THEN w0
       ELSE LET w1 == IF w.roots # <<>> THEN w0
                      ELSE Enqueue([w0 EXCEPT !.roots = <<NewRoot>> \o @],
                                   ChildList(<<ElementNode(FALSE, FALSE, FALSE, FALSE, FALSE)>>,
                                             <<>>))
            IN [w1 EXCEPT !.roots[1] =
                   RestoreInputs(@, i, w.inst[i].SELECTED_COLORS)]

\* onCheckboxClicked without its saveState()
onCheckboxClickedNoSave(w, i, r, k) ==
    LET target == w.roots[r].inputs[k]
        v == target.value
        w1 == [w EXCEPT !.inst[i].SELECTED_COLORS =
                  IF target.checked THEN SetAdd(@, v) ELSE SetDelete(@, v)]
    IN debounceRefresh(w1, i)

\* onCheckboxClicked without its debounceRefresh()
onCheckboxClickedNoRefresh(w, i, r, k) ==
    LET target == w.roots[r].inputs[k]
        v == target.value
        w1 == [w EXCEPT !.inst[i].SELECTED_COLORS =
                  IF target.checked THEN SetAdd(@, v) ELSE SetDelete(@, v)]
    IN saveState(w1, i)

\* onCheckboxClicked(e), e.target being input k of controls block r
onCheckboxClicked(w, i, r, k) ==
    LET target == w.roots[r].inputs[k]
        v == target.value
        w1 == [w EXCEPT !.inst[i].SELECTED_COLORS =
                  IF target.checked THEN SetAdd(@, v) ELSE SetDelete(@, v)]
    IN debounceRefresh(saveState(w1, i), i)

\* the visibility test without the gray case for a card with no color
ShowCardNoGray(cssText, selected) ==
    LET noFilters == Len(selected) = 0
        match == COLOR_RE_exec(cssText)
        colorInCard == IF match.matched THEN match.group1 ELSE <<>>
    IN \/ noFilters
       \/ (colorInCard # <<>> /\ SetHas(selected, colorInCard))

\* the visibility test without the no-filters case
ShowCardNoEmpty(cssText, selected) ==
    LET match == COLOR_RE_exec(cssText)
        colorInCard == IF match.matched THEN match.group1 ELSE <<>>
    IN \/ (colorInCard # <<>> /\ SetHas(selected, colorInCard))
       \/ (colorInCard = <<>> /\ SetHas(selected, gray))

\* the visibility test of refresh() for one card's highlighter
ShowCard(cssText, selected) ==
    LET noFilters == Len(selected) = 0
        match == COLOR_RE_exec(cssText)
        colorInCard == IF match.matched THEN match.group1 ELSE <<>>
    IN \/ noFilters
       \/ (colorInCard # <<>> /\ SetHas(selected, colorInCard))
       \/ (colorInCard = <<>> /\ SetHas(selected, gray))

\* the loop body that adds the marker class and never removes it
RefreshCardNeverUnmarks(card, selected) ==
    LET episode == card.episode
        marked == \/ card.airedClass
                  \/ episode # <<>> /\ includes(episode[1].textContent, AIRED)
        highlighter == card.highlighter
    IN IF highlighter = <<>> THEN [card EXCEPT !.airedClass = marked]
       ELSE [card EXCEPT !.airedClass = marked,
                         !.display = IF ShowCard(highlighter[1].cssText, selected)
                                     THEN "" ELSE "none"]

\* the loop body without its continue: a card with no highlighter is decided
\* on as if its highlighter had no style
RefreshCardNoContinue(card, selected) ==
    LET episode == card.episode
        marked == episode # <<>> /\ includes(episode[1].textContent, AIRED)
        highlighter == card.highlighter
        cssText == IF highlighter = <<>> THEN <<>> ELSE highlighter[1].cssText
    IN [card EXCEPT !.airedClass = marked,
                    !.display = IF ShowCard(cssText, selected) THEN "" ELSE "none"]

\* the body of refresh()'s loop for one card
RefreshCard(card, selected) ==
    LET episode == card.episode
        marked == episode # <<>> /\ includes(episode[1].textContent, AIRED)
        highlighter == card.highlighter
    IN IF highlighter = <<>> THEN [card EXCEPT !.airedClass = marked]
       ELSE [card EXCEPT !.airedClass = marked,
                         !.display = IF ShowCard(highlighter[1].cssText, selected)
                                     THEN "" ELSE "none"]

\* the style property of a highlighter that is a plain Element (one created in
\* a namespace other than HTML, SVG or MathML): undefined
NoStyle == <<"undefined">>

\* whether the loop body throws at this card: highlighter.style.cssText of a
\* highlighter without a style property is a TypeError
Faults(card) ==
    card.highlighter # <<>> /\ card.highlighter[1].cssText = NoStyle

\* the first card at which the loop throws, 0 when it runs to its end
FirstFault(list) ==
    IF \E k \in DOMAIN list : Faults(list[k])
    THEN CHOOSE k \in DOMAIN list :
            Faults(list[k]) /\ \A j \in 1..(k - 1) : ~Faults(list[j])
    ELSE 0

\* the statements of the loop body up to the one that throws: the marker class
MarkCard(card) ==
    LET episode == card.episode
    IN [card EXCEPT !.airedClass =
            episode # <<>> /\ includes(episode[1].textContent, AIRED)]

\* the loop of refresh(), left at the first card that throws
RefreshLoop(list, selected) ==
    LET f == FirstFault(list)
    IN [k \in DOMAIN list |->
            IF f = 0 \/ k < f THEN RefreshCard(list[k], selected)
            ELSE IF k = f THEN MarkCard(list[k])
            ELSE list[k]]

\* the style attribute of a card is rewritten only when the declaration changes
StyleRecords(before, after) ==
    LET changed == { k \in DOMAIN before : before[k].display # after[k].display }
    IN [k \in 1..Cardinality(changed) |-> Attributes(TRUE)]

\* refresh() rewriting the style attribute of every card it decides on
refreshRewrites(w, i) ==
    IF Len(w.cards) = 0 THEN w
    ELSE LET after == [k \in DOMAIN w.cards |->
                          RefreshCard(w.cards[k], w.inst[i].SELECTED_COLORS)]
             decided == { k \in DOMAIN after : after[k].highlighter # <<>> }
         IN EnqueueAll([w EXCEPT !.cards = after],
                       [k \in 1..Cardinality(decided) |-> Attributes(TRUE)])

\* refresh(): the try block, and the catch block that only logs
refresh(w, i) ==
    IF Len(w.cards) = 0 THEN w
    ELSE LET after == RefreshLoop(w.cards, w.inst[i].SELECTED_COLORS)
             caught == FirstFault(w.cards) # 0
         IN EnqueueAll([w EXCEPT !.cards = after,
                                 !.inst[i].faults = IF caught THEN Cap(@ + 1) ELSE @],
                       StyleRecords(w.cards, after))

RECURSIVE ScanNodes(_, _)
\* the loop over a child-list record's nodes; flags is <<cards, filters>>
ScanNodes(nodes, flags) ==
    IF nodes = <<>> THEN flags
    ELSE LET node == Head(nodes)
         IN IF node.nodeType # 1 THEN ScanNodes(Tail(nodes), flags)
            ELSE LET pf == flags[2] \/ node.classFilters \/ node.hasFilters
                     pc == \/ flags[1]
                           \/ node.classCard
                           \/ node.inCard
                           \/ node.hasCard
                 IN IF pc /\ pf THEN <<pc, pf>>
                    ELSE ScanNodes(Tail(nodes), <<pc, pf>>)

RECURSIVE ScanRecords(_, _)
\* the loop over the batch
ScanRecords(mutations, flags) ==
    IF mutations = <<>> \/ (flags[1] /\ flags[2]) THEN flags
    ELSE LET m == Head(mutations)
             next ==
                IF m.type = "childList"
                THEN ScanNodes(m.addedNodes \o m.removedNodes, flags)
                ELSE IF m.type = "attributes"
                     THEN <<flags[1] \/ m.targetInCard, flags[2]>>
                     ELSE flags
         IN ScanRecords(Tail(mutations), next)

\* the callback without lines 214-217: a batch never repairs the controls
ObserverCallbackNoRepair(w, i, mutations) ==
    LET me == w.inst[i]
        flags == ScanRecords(mutations,
                             <<me.pendingCardsChange, me.pendingFiltersChange>>)
        w0 == [w EXCEPT !.now = NoCalls]
        w2 == IF flags[1] THEN debounceRefresh(w0, i) ELSE w0
    IN [w2 EXCEPT !.inst[i].pendingFiltersChange = FALSE,
                  !.inst[i].pendingCardsChange = FALSE]

\* the callback without lines 215 and 220: a flag once set stays set
ObserverCallbackKeepsFlags(w, i, mutations) ==
    LET me == w.inst[i]
        flags == ScanRecords(mutations,
                             <<me.pendingCardsChange, me.pendingFiltersChange>>)
        w0 == [w EXCEPT !.now = NoCalls]
        w1 == IF flags[2] THEN initializeHtml(w0, i) ELSE w0
        w2 == IF flags[1] THEN debounceRefresh(w1, i) ELSE w1
    IN [w2 EXCEPT !.inst[i].pendingFiltersChange = flags[2],
                  !.inst[i].pendingCardsChange = flags[1],
                  !.most = [initializeHtml |-> Max(@.initializeHtml, w2.now.initializeHtml),
                            debounceRefresh |-> Max(@.debounceRefresh, w2.now.debounceRefresh)]]

\* the callback given to new MutationObserver
ObserverCallback(w, i, mutations) ==
    LET me == w.inst[i]
        flags == ScanRecords(mutations,
                             <<me.pendingCardsChange, me.pendingFiltersChange>>)
        w0 == [w EXCEPT !.now = NoCalls]
        w1 == IF flags[2] THEN initializeHtml(w0, i) ELSE w0
        w2 == IF flags[1] THEN debounceRefresh(w1, i) ELSE w1
    IN [w2 EXCEPT !.inst[i].pendingFiltersChange = FALSE,
                  !.inst[i].pendingCardsChange = FALSE,
                  !.most = [initializeHtml |-> Max(@.initializeHtml, w2.now.initializeHtml),
                            debounceRefresh |-> Max(@.debounceRefresh, w2.now.debounceRefresh)]]

\* let mainObserver = null
NoObserver == 0

\* setupObservers()
setupObservers(w, i) ==
    IF w.inst[i].mainObserver # NoObserver THEN w
    ELSE [w EXCEPT !.observers = Append(@, [owner |-> i, queue |-> <<>>]),
                   !.inst[i].mainObserver = Len(w.observers) + 1]

\* initialize()
initialize(w, i) ==
    debounceRefresh(setupObservers(initializeHtml(initializeCss(w), i), i), i)

(***************************************************************************)
(* The browser: mutation observers are notified when the task ends, each   *)
(* with the records queued for it; the timer table; the change event.      *)
(***************************************************************************)
RECURSIVE NotifyFrom(_, _)
NotifyFrom(w, k) ==
    IF k > Len(w.observers) THEN w
    ELSE LET records == w.observers[k].queue
             w1 == [w EXCEPT !.observers[k].queue = <<>>]
         IN NotifyFrom(IF records = <<>> THEN w1
                       ELSE ObserverCallback(w1, w.observers[k].owner, records),
                       k + 1)

RECURSIVE Notify(_)
Notify(w) ==
    IF \A k \in DOMAIN w.observers : w.observers[k].queue = <<>> THEN w
    ELSE Notify(NotifyFrom(w, 1))

RECURSIVE DispatchChange(_, _, _, _)
\* the change event of input k of block r, to its listeners in order
DispatchChange(w, listeners, r, k) ==
    IF listeners = <<>> THEN w
    ELSE DispatchChange(onCheckboxClicked(w, Head(listeners), r, k),
                        Tail(listeners), r, k)

\* the timeout's callback with a refresh() that has no catch block: what
\* refresh() throws leaves the callback before refreshTimer = null
TimerCallbackNoCatch(w, i) ==
    LET w1 == refresh(w, i)
    IN IF FirstFault(w.cards) # 0
       THEN [w1 EXCEPT !.inst[i].execs = Cap(@ + 1)]
       ELSE [w1 EXCEPT !.inst[i].refreshTimer = NoTimer,
                       !.inst[i].execs = Cap(@ + 1)]

\* the timeout's callback: refresh(); refreshTimer = null
TimerCallback(w, i) ==
    LET w1 == refresh(w, i)
    IN [w1 EXCEPT !.inst[i].refreshTimer = NoTimer,
                  !.inst[i].execs = Cap(@ + 1)]

\* the closure of a copy of the script, once SELECTED_COLORS is loaded
NewInstance(selected) ==
    [status |-> "running", SELECTED_COLORS |-> selected,
     refreshTimer |-> NoTimer, mainObserver |-> NoObserver,
     pendingCardsChange |-> FALSE, pendingFiltersChange |-> FALSE,
     calls |-> 0, execs |-> 0, sinceCall |-> REFRESH_DEBOUNCE_MS, faults |-> 0]

\* a copy whose first statements threw: nothing of it runs afterwards
CrashedInstance == [NewInstance(<<>>) EXCEPT !.status = "crashed"]

\* the script body, lines 11-241: load the selection, then initialize()
RunScript(w) ==
    LET text == getItemOrEmpty(w.storage)
        i == Len(w.inst) + 1
    IN IF LoadThrows(text)
       THEN [w EXCEPT !.inst = Append(@, CrashedInstance)]
       ELSE initialize([w EXCEPT !.inst = Append(@, NewInstance(LoadSet(text)))], i)

(***************************************************************************)
(* What the host page and the user supply.                                 *)
(***************************************************************************)
blue == <<"b","l","u","e">>

Unparsable == <<"c","o","l","o","r",":","r","e","d">>

\* inline styles the host gives a highlighter
HostStyles == { Unparsable, ColorPrefix \o green, ColorPrefix \o blue }

Airing == <<"a","i","r","i","n","g">>

HasAired == <<"h","a","s"," ">> \o AIRED

\* texts the host gives an episode element
HostTexts == { Airing, HasAired }

\* a card as the host renders it: no display override, no marker class
Card(highlighter, episode) ==
    [highlighter |-> highlighter, episode |-> episode,
     display |-> "", airedClass |-> FALSE]

Style(st) == <<[cssText |-> st]>>

Text(t) == <<[textContent |-> t]>>

\* the cards the host renders
Templates ==
    << Card(<<>>, Text(Airing)),
       Card(Style(ColorPrefix \o green), Text(HasAired)),
       Card(Style(Unparsable), <<>>) >>

NewCards == Range(Templates)

\* the k-th smallest member of a set of numbers
Nth(S, k) == CHOOSE n \in S : Cardinality({ m \in S : m < n }) = k - 1

\* the page as it loads: some of the cards, in the order above
InitialCards ==
    { [k \in 1..Cardinality(S) |-> Templates[Nth(S, k)]] :
        S \in { T \in SUBSET DOMAIN Templates : Cardinality(T) <= MaxCards } }

\* what localStorage holds when the page loads
InitialStorage ==
    { JsonMissing, JsonInvalid, JsonObject, JsonArray(<<green, green>>) }

\* the checkboxes the user clicks: green and gray
ClickInputs == {1, 4}

\* the page before the script runs, localStorage holding one of stored
InitWith(stored) ==
    /\ storage \in stored
    /\ css = 0
    /\ filters \in BOOLEAN
    /\ roots = <<>>
    /\ cards \in InitialCards
    /\ observers = <<>>
    /\ timers = {}
    /\ inst = <<>>
    /\ hostOps = 0
    /\ toggles = 0
    /\ quietRuns = 0
    /\ batch = NoCalls
    /\ last = [op |-> "none", inst |-> 0]

Init == InitWith(InitialStorage)

Running(i) == i \in DOMAIN inst /\ inst[i].status = "running"

(***************************************************************************)
(* Tasks.                                                                  *)
(***************************************************************************)
\* the user-script manager runs the script at page load
Load ==
    /\ Len(inst) = 0
    /\ Commit(Notify(RunScript(World)))
    /\ last' = [op |-> "load", inst |-> 1]
    /\ UNCHANGED <<hostOps, toggles, quietRuns>>

\* the host environment injects the script into the same page again
Reinject ==
    /\ Len(inst) >= 1
    /\ Len(inst) < MaxInst
    /\ Commit(Notify(RunScript(World)))
    /\ last' = [op |-> "load", inst |-> Len(inst) + 1]
    /\ UNCHANGED <<hostOps, toggles, quietRuns>>

\* the user clicks checkbox k of controls block r
Toggle(r, k) ==
    /\ toggles < MaxToggles
    /\ r \in DOMAIN roots
    /\ LET w1 == [World EXCEPT !.roots[r].inputs[k].checked = ~@]
       IN Commit(Notify(DispatchChange(w1, roots[r].inputs[k].listeners, r, k)))
    /\ toggles' = toggles + 1
    /\ quietRuns' = 0
    /\ last' = [op |-> "toggle", inst |-> 0]
    /\ UNCHANGED hostOps

Min(a, b) == IF a < b THEN a ELSE b

\* time passes, up to the next timeout that is due
Tick ==
    /\ \A t \in timers : t.left > 0
    /\ timers # {} \/ \E i \in DOMAIN inst : inst[i].sinceCall < REFRESH_DEBOUNCE_MS
    /\ LET due == { t.left : t \in timers }
           e == IF due = {} THEN TickStep
                ELSE Min(TickStep, CHOOSE d \in due : \A x \in due : d <= x)
       IN /\ timers' = { [t EXCEPT !.left = @ - e] : t \in timers }
          /\ inst' = [i \in DOMAIN inst |->
                [inst[i] EXCEPT !.sinceCall = Min(@ + e, REFRESH_DEBOUNCE_MS)]]
    /\ last' = [op |-> "tick", inst |-> 0]
    /\ batch' = NoCalls
    /\ UNCHANGED <<storage, css, filters, roots, cards, observers,
                   hostOps, toggles, quietRuns>>

\* a due timeout fires: its callback runs, then the observers are notified
TimerFire(t) ==
    /\ t \in timers
    /\ t.left = 0
    /\ \E w1 \in {TimerCallback([World EXCEPT !.timers = @ \ {t}], t.owner)} :
       \E w2 \in {Notify(w1)} :
       LET me == w1.inst[t.owner]
       IN /\ Commit(w2)
          /\ last' = [op |-> "refresh", inst |-> t.owner,
                      elapsed |-> inst[t.owner].sinceCall,
                      calls |-> me.calls, execs |-> me.execs,
                      gained |-> \E k \in DOMAIN cards :
                                    ~cards[k].airedClass /\ w1.cards[k].airedClass,
                      lost |-> \E k \in DOMAIN cards :
                                    cards[k].airedClass /\ ~w1.cards[k].airedClass,
                      faulted |-> FirstFault(cards) # 0,
                      cleared |-> me.refreshTimer = NoTimer]
    /\ quietRuns' = Cap(quietRuns + 1)
    /\ UNCHANGED <<hostOps, toggles>>

\* a host mutation with the records it queues, then the observers are notified
HostTask(w, recs, name) ==
    /\ hostOps < MaxHostOps
    /\ Commit(Notify(EnqueueAll(w, recs)))
    /\ hostOps' = hostOps + 1
    /\ quietRuns' = 0
    /\ last' = [op |-> name, inst |-> 0]
    /\ UNCHANGED toggles

CardNode == ElementNode(FALSE, FALSE, TRUE, FALSE, FALSE)

HostAddCard(c) ==
    /\ Len(cards) < MaxCards
    /\ HostTask([World EXCEPT !.cards = Append(@, c)],
                <<ChildList(<<CardNode>>, <<>>)>>, "addCard")

HostRemoveCard(k) ==
    /\ k \in DOMAIN cards
    /\ HostTask([World EXCEPT !.cards =
                    SubSeq(@, 1, k - 1) \o SubSeq(@, k + 1, Len(@))],
                <<ChildList(<<>>, <<CardNode>>)>>, "removeCard")

\* the host rewrites the inline style of a card's highlighter
HostSetStyle(k, st) ==
    /\ k \in DOMAIN cards
    /\ cards[k].highlighter # <<>>
    /\ cards[k].highlighter[1].cssText # st
    /\ HostTask([World EXCEPT !.cards[k].highlighter[1].cssText = st],
                <<Attributes(TRUE)>>, "setStyle")

\* the host inserts a highlighter into a card: the node matches ".media-card *"
HostAddHighlighter(k, st) ==
    /\ k \in DOMAIN cards
    /\ cards[k].highlighter = <<>>
    /\ HostTask([World EXCEPT !.cards[k].highlighter = <<[cssText |-> st]>>],
                <<ChildList(<<ElementNode(FALSE, FALSE, FALSE, TRUE, FALSE)>>, <<>>)>>,
                "addHighlighter")

\* the host inserts a highlighter that is a plain Element, with no style property
HostAddPlainHighlighter(k) ==
    /\ k \in DOMAIN cards
    /\ cards[k].highlighter = <<>>
    /\ HostTask([World EXCEPT !.cards[k].highlighter = <<[cssText |-> NoStyle]>>],
                <<ChildList(<<ElementNode(FALSE, FALSE, FALSE, TRUE, FALSE)>>, <<>>)>>,
                "addPlainHighlighter")

\* the host removes a card's highlighter: detached, it matches nothing
HostRemoveHighlighter(k) ==
    /\ k \in DOMAIN cards
    /\ cards[k].highlighter # <<>>
    /\ HostTask([World EXCEPT !.cards[k].highlighter = <<>>],
                <<ChildList(<<>>, <<ElementNode(FALSE, FALSE, FALSE, FALSE, FALSE)>>)>>,
                "removeHighlighter")

\* the host replaces the text of a card's episode element
HostSetEpisode(k, text) ==
    /\ k \in DOMAIN cards
    /\ cards[k].episode # <<>>
    /\ cards[k].episode[1].textContent # text
    /\ HostTask([World EXCEPT !.cards[k].episode[1].textContent = text],
                <<ChildList(<<TextNode>>, <<TextNode>>)>>, "setEpisode")

FiltersNode == ElementNode(TRUE, FALSE, FALSE, FALSE, FALSE)

\* the host removes its .filters container, and the controls block inside it
HostRemoveFilters ==
    /\ filters
    /\ HostTask([World EXCEPT !.filters = FALSE, !.roots = <<>>],
                <<ChildList(<<>>, <<FiltersNode>>)>>, "removeFilters")

\* the host renders a new .filters container
HostAddFilters ==
    /\ ~filters
    /\ HostTask([World EXCEPT !.filters = TRUE],
                <<ChildList(<<FiltersNode>>, <<>>)>>, "addFilters")

\* the host moves its .filters container, the controls block still inside it
HostMoveFilters ==
    /\ filters
    /\ HostTask(World,
                <<ChildList(<<>>, <<FiltersNode>>), ChildList(<<FiltersNode>>, <<>>)>>,
                "moveFilters")

Host ==
    \/ \E c \in NewCards : HostAddCard(c)
    \/ \E k \in 1..MaxCards : HostRemoveCard(k)
    \/ \E k \in 1..MaxCards, st \in HostStyles : HostSetStyle(k, st)
    \/ \E k \in 1..MaxCards, st \in HostStyles : HostAddHighlighter(k, st)
    \/ \E k \in 1..MaxCards : HostRemoveHighlighter(k)
    \/ \E k \in 1..MaxCards, text \in HostTexts : HostSetEpisode(k, text)
    \/ HostRemoveFilters
    \/ HostAddFilters
    \/ HostMoveFilters

\* the user clicks one of the checkboxes
Click == \E k \in ClickInputs : Toggle(1, k)

\* one of the due timeouts fires
Fire == \E t \in timers : TimerFire(t)

Next ==
    \/ Load
    \/ Click
    \/ Tick
    \/ Fire
    \/ Host

Spec == Init /\ [][Next]_vars

\* a timeout is due: the enabling condition of Fire
FireDue == \E t \in timers : t.left = 0

\* weak fairness of Fire, written out with FireDue for ENABLED <<Fire>>_vars
FairFire == []<>(~FireDue) \/ []<><<Fire>>_vars

\* time passes and a due timeout fires: the browser's event loop
SpecLive == Spec /\ WF_vars(Tick) /\ FairFire

\* the same page, the script injected more than once, the host page at rest
NextReinject ==
    \/ Load
    \/ Reinject
    \/ Click
    \/ Tick
    \/ Fire

SpecReinject == Init /\ [][NextReinject]_vars

\* an array the script did not write: a token of no checkbox, then gray
ForeignStorage == { JsonArray(<<blue, gray>>) }

\* the same page, localStorage written by something other than saveState()
SpecForeign == InitWith(ForeignStorage) /\ [][Next]_vars

HostPlain == \E k \in 1..MaxCards : HostAddPlainHighlighter(k)

\* a host page that renders a highlighter refresh() cannot read
NextFault ==
    \/ Load
    \/ Click
    \/ Tick
    \/ Fire
    \/ HostPlain

SpecFault == Init /\ [][NextFault]_vars

(***************************************************************************)
(* Properties.                                                             *)
(***************************************************************************)
Selected(i) == Members(inst[i].SELECTED_COLORS)

Token(card) == COLOR_RE_exec(card.highlighter[1].cssText)

\* what section 4.1 asks of a card with a highlighter under a non-empty selection
Matches(card, S) ==
    \/ Token(card).matched /\ Token(card).group1 \in S
    \/ ~Token(card).matched /\ gray \in S

AfterRefresh == last.op = "refresh"

\* C1: after a refresh pass, under a non-empty selection S a card with a
\* highlighter is displayed iff its parsed token is in S, or it has no parsable
\* token and gray is in S; otherwise its display override is "none".
C1_RefreshAppliesPredicate ==
    AfterRefresh /\ Selected(last.inst) # {} =>
        \A k \in DOMAIN cards :
            cards[k].highlighter # <<>> =>
                cards[k].display =
                    IF Matches(cards[k], Selected(last.inst)) THEN "" ELSE "none"

\* a pass under {gray}: the card with no parsable token shown, the green one hidden
C1_Witness ==
    /\ AfterRefresh
    /\ Selected(last.inst) = {gray}
    /\ \E k, j \in DOMAIN cards :
        /\ cards[k].highlighter = Style(Unparsable) /\ cards[k].display = ""
        /\ cards[j].highlighter = Style(ColorPrefix \o green)
        /\ cards[j].display = "none"

\* C2: calls to debounceRefresh() that each follow the previous one by less than
\* REFRESH_DEBOUNCE_MS run the refresh body once, no earlier than
\* REFRESH_DEBOUNCE_MS after the last of them: a pass runs only when that long has
\* passed since the last call, it is the first pass since the burst began, no pass
\* has run while a timeout of the burst is pending, and a timeout goes only by firing.
C2_DebounceLaw ==
    /\ AfterRefresh =>
        /\ last.elapsed >= REFRESH_DEBOUNCE_MS
        /\ last.calls >= 1
        /\ last.execs = 1
    /\ \A i \in DOMAIN inst :
        Running(i) =>
            /\ inst[i].refreshTimer # NoTimer => inst[i].execs = 0
            /\ inst[i].refreshTimer = NoTimer => inst[i].execs = 1

\* three calls inside the window, then the one pass
C2_Witness ==
    /\ AfterRefresh
    /\ last.calls = 3
    /\ last.execs = 1
    /\ last.elapsed = REFRESH_DEBOUNCE_MS

\* C3 as stated: with an empty selection, after a refresh pass every card of the
\* document is visible.
C3_AllCardsVisible ==
    AfterRefresh /\ Selected(last.inst) = {} =>
        \A k \in DOMAIN cards : cards[k].display = ""

\* C3, amended: with an empty selection, after a refresh pass every card that has
\* a highlighter is visible, whatever selections and host changes came before.
C3_CardsWithHighlighterVisible ==
    AfterRefresh /\ Selected(last.inst) = {} =>
        \A k \in DOMAIN cards :
            cards[k].highlighter # <<>> => cards[k].display = ""

\* a pass under the empty selection, after a selection that hid the card
C3_Witness ==
    /\ AfterRefresh
    /\ Selected(last.inst) = {}
    /\ toggles = 1
    /\ \E k \in DOMAIN cards :
        /\ cards[k].highlighter = Style(Unparsable)
        /\ cards[k].display = ""

\* C4: once the host and the user are at rest, at most two refresh passes run (the
\* second caused by the writes of the first), and after the second no timeout is
\* pending.
C4_Converges ==
    /\ quietRuns <= 2
    /\ quietRuns = 2 => timers = {}

\* the extra cycle has run and nothing is pending
C4_Witness ==
    /\ AfterRefresh
    /\ quietRuns = 2
    /\ timers = {}

\* C5 as stated: loading the persisted selection never fails, and missing or
\* malformed data gives the empty selection.
C5_LoadNeverFails ==
    last.op = "load" => inst[last.inst].status = "running"

\* C6 as stated: however often the script is run in a page, the document has one
\* observer subscription, at most one style block and at most one controls block.
C6_NoDuplicates ==
    (\E i \in DOMAIN inst : Running(i)) =>
        /\ Len(observers) = 1
        /\ css <= 1
        /\ Len(roots) <= 1

InPalette(token) == token \in Range(KNOWN_COLORS)

\* C7 as stated: a card whose token is outside the palette is shown or hidden
\* after refresh exactly as a card with no parsable token is.
C7_UnknownTokenLikeNoToken ==
    AfterRefresh =>
        \A k \in DOMAIN cards :
            /\ cards[k].highlighter # <<>>
            /\ Token(cards[k]).matched
            /\ ~InPalette(Token(cards[k]).group1)
            => cards[k].display =
                 IF ShowCard(Unparsable, inst[last.inst].SELECTED_COLORS)
                 THEN "" ELSE "none"

\* C8: after any sequence of toggles the stored value loads without fault to the
\* selection in effect.
C8_RoundTrip ==
    \A i \in DOMAIN inst :
        Running(i) /\ toggles >= 1 =>
            /\ ~LoadThrows(getItemOrEmpty(storage))
            /\ Members(LoadSet(getItemOrEmpty(storage))) = Selected(i)

\* a toggle back to the empty selection, stored as the empty array
C8_Witness ==
    /\ last.op = "toggle"
    /\ toggles = 1
    /\ Running(1)
    /\ Selected(1) = {}
    /\ storage = JsonArray(<<>>)

\* C9: initializeHtml twice in a row gives the state initializeHtml gives once,
\* and the document holds at most one controls block, with one checkbox per
\* palette color and one change listener per checkbox.
C9_RepairIdempotent ==
    /\ \A i \in DOMAIN inst :
        Running(i) =>
            [initializeHtml(initializeHtml(World, i), i) EXCEPT !.now = NoCalls]
                = [initializeHtml(World, i) EXCEPT !.now = NoCalls]
    /\ Len(roots) <= 1
    /\ \A r \in DOMAIN roots :
        /\ [k \in DOMAIN roots[r].inputs |-> roots[r].inputs[k].value] = KNOWN_COLORS
        /\ \A k \in DOMAIN roots[r].inputs : Len(roots[r].inputs[k].listeners) = 1

\* a repair that found the controls block in place, a checkbox checked
C9_Witness ==
    /\ last.op = "moveFilters"
    /\ Len(roots) = 1
    /\ roots[1].inputs[1].checked
    /\ Len(roots[1].inputs[1].listeners) = 1

\* C10: after each refresh pass a card carries the marker class iff it has an
\* episode element whose text contains "aired".
C10_MarkerRecomputed ==
    AfterRefresh =>
        \A k \in DOMAIN cards :
            cards[k].airedClass <=>
                /\ cards[k].episode # <<>>
                /\ includes(cards[k].episode[1].textContent, AIRED)

\* a pass that took the marker off a card whose text no longer contains "aired"
C10_Witness ==
    /\ AfterRefresh
    /\ last.lost
    /\ \E k \in DOMAIN cards :
        /\ cards[k].episode = Text(Airing)
        /\ ~cards[k].airedClass

\* C11: a refresh pass leaves the display override of a card with no
\* highlighter as it was before the pass, and still recomputes its marker class.
C11_NoHighlighterFrame ==
    [][last'.op = "refresh" =>
        \A k \in DOMAIN cards :
            cards[k].highlighter = <<>> =>
                /\ cards'[k].display = cards[k].display
                /\ cards'[k].airedClass <=>
                      /\ cards[k].episode # <<>>
                      /\ includes(cards[k].episode[1].textContent, AIRED)]_vars

\* a pass over a card that was hidden before it lost its highlighter: still hidden
C11_Witness ==
    /\ AfterRefresh
    /\ \E k \in DOMAIN cards :
        /\ cards[k].highlighter = <<>>
        /\ cards[k].display = "none"

\* C12: in every reachable state a copy of the script has at most one timeout
\* scheduled and not yet fired, and it is the one refreshTimer names: a call of
\* debounceRefresh cancels the pending timeout before it schedules another.
C12_OneOutstandingTimer ==
    \A i \in DOMAIN inst :
        /\ Cardinality({ t \in timers : t.owner = i }) <= 1
        /\ \A t \in timers : t.owner = i => inst[i].refreshTimer = t.id

\* a click while the timeout of an earlier request was pending: one timeout, in full
C12_Witness ==
    /\ last.op = "toggle"
    /\ \E i \in DOMAIN inst : inst[i].calls >= 2
    /\ Cardinality(timers) = 1
    /\ \A t \in timers : t.left = REFRESH_DEBOUNCE_MS

\* C13: after a refresh pass in which one card raised a fault, every other
\* card has the marker class its episode text calls for and, when it has a
\* highlighter, the display override the visibility test gives.
C13_FaultSparesOtherCards ==
    AfterRefresh /\ last.faulted =>
        \A k \in DOMAIN cards :
            ~Faults(cards[k]) =>
                /\ cards[k].airedClass <=>
                      /\ cards[k].episode # <<>>
                      /\ includes(cards[k].episode[1].textContent, AIRED)
                /\ cards[k].highlighter # <<>> =>
                      cards[k].display =
                          IF ShowCard(cards[k].highlighter[1].cssText,
                                      inst[last.inst].SELECTED_COLORS)
                          THEN "" ELSE "none"

\* C14: a fault inside refresh() stays inside it and leaves the engine at work:
\* the timeout's callback still clears refreshTimer, so that refreshTimer never
\* names a timeout that is gone; the observer of a running copy stays
\* subscribed; and a click still leaves a refresh scheduled.
C14_FaultLeavesEngineRunning ==
    /\ AfterRefresh /\ last.faulted => last.cleared
    /\ \A i \in DOMAIN inst :
        Running(i) =>
            /\ inst[i].mainObserver \in DOMAIN observers
            /\ observers[inst[i].mainObserver].owner = i
            /\ inst[i].refreshTimer # NoTimer =>
                  \E t \in timers : t.id = inst[i].refreshTimer /\ t.owner = i
    /\ last.op = "toggle" =>
          /\ Running(1)
          /\ inst[1].refreshTimer # NoTimer
          /\ inst[1].sinceCall = 0

\* a faulting pass, then a click, then the first pass since the click
C14_Witness ==
    /\ AfterRefresh
    /\ last.faulted
    /\ toggles = 1
    /\ quietRuns = 1
    /\ inst[last.inst].faults = 2

\* C15: a batch with a child-list record whose added or removed element is a
\* card or a descendant of a card makes the observer callback of a running copy
\* call debounceRefresh.
C15_CardRecordsRequestRefresh ==
    /\ last.op \in {"addCard", "removeCard", "addHighlighter", "removeHighlighter"}
    /\ Running(1)
    => batch.debounceRefresh >= 1

\* C16: when the script loads on a page with no .filters container it builds
\* no controls block and keeps running; when the host then inserts the
\* container, the task that processes that batch ends with one controls block
\* in it, each checkbox checked iff its color is in the selection.
C16_HostNotReadyRetried ==
    /\ last.op = "load" /\ ~filters /\ ~LoadThrows(getItemOrEmpty(storage)) =>
          Running(1) /\ roots = <<>>
    /\ last.op = "addFilters" /\ Running(1) =>
          /\ Len(roots) = 1
          /\ \A k \in DOMAIN roots[1].inputs :
                roots[1].inputs[k].checked <=>
                    roots[1].inputs[k].value \in Selected(1)

\* the container inserted after the script found none: green checked, red not
C16_Witness ==
    /\ last.op = "addFilters"
    /\ Running(1)
    /\ Len(roots) = 1
    /\ Selected(1) = {green}
    /\ roots[1].inputs[1].checked
    /\ ~roots[1].inputs[3].checked

\* C17: in every reachable state the selection of every copy of the script is
\* a subset of the palette {green, yellow, red, gray}.
C17_SelectionWithinPalette ==
    \A i \in DOMAIN inst : Selected(i) \subseteq Range(KNOWN_COLORS)

\* C18: the observer callback calls initializeHtml at most once and
\* debounceRefresh at most once for a batch; when it returns both flags are
\* false; and a batch with no matching record (the text of an episode element
\* replaced) makes neither call.
C18_OncePerBatch ==
    /\ batch.initializeHtml <= 1
    /\ batch.debounceRefresh <= 1
    /\ \A i \in DOMAIN inst :
        ~inst[i].pendingCardsChange /\ ~inst[i].pendingFiltersChange
    /\ last.op = "setEpisode" => batch = NoCalls

\* a batch of two records that both match the controls container: one repair
C18_Witness ==
    /\ last.op = "moveFilters"
    /\ Running(1)
    /\ batch = [initializeHtml |-> 1, debounceRefresh |-> 0]

\* C19: between tasks, whenever the controls block exists, each of its
\* checkboxes is checked iff its color is in the selection of the running script.
C19_CheckboxesMirrorSelection ==
    \A r \in DOMAIN roots :
        /\ Running(1)
        /\ \A k \in DOMAIN roots[r].inputs :
            roots[r].inputs[k].checked <=>
                roots[r].inputs[k].value \in Selected(1)

\* a repair after a click on gray: gray still checked and selected, yellow neither
C19_Witness ==
    /\ last.op = "moveFilters"
    /\ toggles = 1
    /\ Len(roots) = 1
    /\ roots[1].inputs[4].checked
    /\ gray \in Selected(1)
    /\ ~roots[1].inputs[2].checked
    /\ yellow \notin Selected(1)

\* every card with a highlighter has the display override the visibility test
\* gives under the selection of copy i as it stands
Reflects(i) ==
    \A k \in DOMAIN cards :
        cards[k].highlighter # <<>> =>
            cards[k].display =
                IF ShowCard(cards[k].highlighter[1].cssText, inst[i].SELECTED_COLORS)
                THEN "" ELSE "none"

\* C20: every click is eventually reflected: a refresh pass eventually ends with
\* no timeout pending and every card that has a highlighter shown or hidden as
\* the visibility test says under the selection as it then stands; and whenever
\* no timeout is pending after a click the cards are so (the last pass is never
\* one of a stale selection).
C20_ToggleReflected ==
    /\ (last.op = "toggle") ~> (AfterRefresh /\ timers = {} /\ Reflects(1))
    /\ [](toggles >= 1 /\ timers = {} => Reflects(1))

\* at rest after a click on green: the card with no parsable color is hidden
C20_Witness ==
    /\ AfterRefresh
    /\ toggles = 1
    /\ timers = {}
    /\ Selected(1) = {green}
    /\ Reflects(1)
    /\ \E k \in DOMAIN cards :
        cards[k].highlighter # <<>> /\ cards[k].display = "none"

====
